---- MODULE Spec2Model ----
(***************************************************************************)
(* Container-tracking workflow (src/generate_workflow.py).                 *)
(*                                                                         *)
(* The generator emits an n8n workflow whose decision logic lives in the   *)
(* JavaScript of its Code nodes and in the connection table.  This module  *)
(* models that logic:                                                      *)
(*   - the attachment classifier (hasExt, containsWord, classify),         *)
(*   - the response extractor (extractJson, both copies),                  *)
(*   - the two reducers (Parse Container Response, Parse PKL Response),    *)
(*   - the node graph from Classify Attachment to Format Output.           *)
(*                                                                         *)
(* Strings the code inspects character by character (filenames, raw model  *)
(* replies) are sequences; JavaScript values are tagged records.           *)
(***************************************************************************)
EXTENDS Integers, Sequences, FiniteSets, TLC

VARIABLES
    filename,        \* classifier: the attachment's filenameRaw
    attachmentType,  \* classifier: the label classify assigned ("none" before it ran)
    raw,             \* extractor: the raw model reply
    extractor,       \* extractor: which copy of extractJson ran ("none" before)
    extracted,       \* extractor: what extractJson returned
    replies,         \* reducers: the $input.all() texts of one reducer run
    branch,          \* reducers: "bill" or "pkl", the reducer the run is for
    reduced,         \* reducers: the outcome of the run (NotRun before)
    reducedAlt,      \* reducers: the outcome on replies differing in self-reported fields
    attachments,     \* pipeline: the filenames Split Attachments emitted
    inbox,           \* pipeline: node name -> pending deliveries (each a sequence of items)
    reached,         \* pipeline: history, the <<node, attachment>> pairs a node consumed
    finalRecords,    \* pipeline: the records Format Output emitted
    aborted          \* pipeline: TRUE once a Code node threw (the execution stops)

clsVars == <<filename, attachmentType>>
extVars == <<raw, extractor, extracted>>
redVars == <<replies, branch, reduced, reducedAlt>>
pipeVars == <<attachments, inbox, reached, finalRecords, aborted>>
vars == <<filename, attachmentType, raw, extractor, extracted,
          replies, branch, reduced, reducedAlt,
          attachments, inbox, reached, finalRecords, aborted>>

(***************************************************************************)
(* Bounds of the model.                                                    *)
(***************************************************************************)
MaxRawLen == 5        \* tokens in an enumerated raw reply
MaxPieces == 3        \* pieces in an enumerated filename stem
MaxReplies == 3       \* replies in one reducer run
MaxAttachments == 2   \* attachments of one email

(***************************************************************************)
(* JavaScript values.                                                      *)
(***************************************************************************)
Undefined == [t |-> "undefined"]
Null == [t |-> "null"]
NaN == [t |-> "NaN"]
Num(n) == [t |-> "number", n |-> n]
Str(s) == [t |-> "string", s |-> s]
Bool(b) == [t |-> "boolean", b |-> b]
Arr(e) == [t |-> "array", e |-> e]
Obj(f) == [t |-> "object", f |-> f]

\* JavaScript truthiness, as used by !x, x && y, x || y.
Truthy(v) ==
    CASE v.t = "undefined" -> FALSE
      [] v.t = "null" -> FALSE
      [] v.t = "NaN" -> FALSE
      [] v.t = "number" -> v.n # 0
      [] v.t = "string" -> v.s # ""
      [] v.t = "boolean" -> v.b
      [] OTHER -> TRUE

\* Array.isArray(v)
IsArray(v) == v.t = "array"

\* v != null (loose): false exactly for null and undefined.
NotNullish(v) == v.t \notin {"null", "undefined"}

\* Property read v.key on a value that is not null or undefined.
Get(v, key) ==
    IF v.t = "object" /\ key \in DOMAIN v.f THEN v.f[key] ELSE Undefined

\* The decimal strings the sample replies use, and the number each denotes.
NumericStrings == [s \in {"0", "1", "2", "50"} |->
    CASE s = "0" -> 0 [] s = "1" -> 1 [] s = "2" -> 2 [] s = "50" -> 50]

\* Number(v): JavaScript's numeric coercion.
Number(v) ==
    CASE v.t = "number" -> v
      [] v.t = "NaN" -> NaN
      [] v.t = "null" -> Num(0)
      [] v.t = "undefined" -> NaN
      [] v.t = "boolean" -> IF v.b THEN Num(1) ELSE Num(0)
      [] v.t = "string" ->
            IF v.s = "" THEN Num(0)
            ELSE IF v.s \in DOMAIN NumericStrings THEN Num(NumericStrings[v.s])
            ELSE NaN
      [] v.t = "array" ->
            IF Len(v.e) = 0 THEN Num(0)
            ELSE IF Len(v.e) = 1 /\ v.e[1].t = "number" THEN v.e[1]
            ELSE NaN
      [] OTHER -> NaN

\* Number.isFinite(v): no coercion, so null is not finite.
IsFinite(v) == v.t = "number"

(***************************************************************************)
(* Raw replies.  A raw reply is a sequence of tokens: the two braces, a    *)
(* whitespace character, a prose character, the two fence markers (FO is   *)
(* three backquotes followed by json, FC three backquotes alone), a JSON   *)
(* member ("key": value, with its separators) and a JSON scalar literal.   *)
(* A member's text holds balanced braces only, so it never supplies the    *)
(* first '{' or the last '}' of a reply that has outer braces.             *)
(***************************************************************************)
LB == [t |-> "{"]
RB == [t |-> "}"]
WS == [t |-> "ws"]
X == [t |-> "prose"]
FO == [t |-> "fence-json"]
FC == [t |-> "fence"]
Member(k, v) == [t |-> "member", k |-> k, v |-> v]
Scalar(v) == [t |-> "scalar", v |-> v]

\* String.prototype.trim
RECURSIVE TrimLeft(_)
TrimLeft(s) == IF s # <<>> /\ Head(s) = WS THEN TrimLeft(Tail(s)) ELSE s

RECURSIVE TrimRight(_)
TrimRight(s) ==
    IF s # <<>> /\ s[Len(s)] = WS THEN TrimRight(SubSeq(s, 1, Len(s) - 1)) ELSE s

Trim(s) == TrimRight(TrimLeft(s))

\* text.indexOf(tok) and text.lastIndexOf(tok), 1-based, 0 when absent (-1 in JS).
IndexOf(s, tok) ==
    IF \E i \in DOMAIN s : s[i] = tok
    THEN CHOOSE i \in DOMAIN s : s[i] = tok /\ \A j \in 1..(i - 1) : s[j] # tok
    ELSE 0

LastIndexOf(s, tok) ==
    IF \E i \in DOMAIN s : s[i] = tok
    THEN CHOOSE i \in DOMAIN s : s[i] = tok /\ \A j \in (i + 1)..Len(s) : s[j] # tok
    ELSE 0

\* The fence-removing replace (global, case-insensitive, lazy): every leftmost,
\* shortest run from a json fence marker FO to the next three backquotes loses
\* its two markers.  The closing backquotes may be the head of a further FO,
\* whose letters "json" then stay behind as prose.
RECURSIVE RemoveFences(_)
RemoveFences(s) ==
    LET i == IndexOf(s, FO)
    IN  IF i = 0 THEN s
        ELSE LET closers == {j \in (i + 1)..Len(s) : s[j] \in {FC, FO}}
             IN  IF closers = {} THEN s
                 ELSE LET j == CHOOSE c \in closers : \A d \in closers : c <= d
                      IN  SubSeq(s, 1, i - 1) \o SubSeq(s, i + 1, j - 1)
                            \o (IF s[j] = FO THEN <<X>> ELSE <<>>)
                            \o RemoveFences(SubSeq(s, j + 1, Len(s)))

\* The object a sequence of members denotes: a repeated key keeps its last value.
Fields(ms) ==
    [k \in {ms[i].k : i \in DOMAIN ms} |->
        ms[CHOOSE i \in DOMAIN ms :
              ms[i].k = k /\ \A j \in DOMAIN ms : ms[j].k = k => j <= i].v]

IsMemberToken(tok) == tok.t = "member"

\* JSON.parse(text): the value, or threw = TRUE for a SyntaxError.
JSONparse(text) ==
    LET s == Trim(text)
        n == Len(s)
    IN  IF n = 1 /\ s[1].t = "scalar"
        THEN [threw |-> FALSE, value |-> s[1].v]
        ELSE IF /\ n >= 2
                /\ s[1] = LB
                /\ s[n] = RB
                /\ \A i \in 2..(n - 1) : s[i].t \in {"member", "ws"}
        THEN [threw |-> FALSE,
              value |-> Obj(Fields(SelectSeq(SubSeq(s, 2, n - 1), IsMemberToken)))]
        ELSE [threw |-> TRUE, value |-> Undefined]

\* Lines 423-430 / 557-563: slice the first '{' .. last '}' block, but only
\* when the text does not already start with '{'.
SliceBraces(text) ==
    IF Trim(text) # <<>> /\ Head(Trim(text)) = LB
    THEN text
    ELSE LET start == IndexOf(text, LB)
             end == LastIndexOf(text, RB)
         IN  IF start # 0 /\ end # 0 /\ end > start
             THEN SubSeq(text, start, end)
             ELSE text

\* A SyntaxError escaping extractJson is the value Raised.
Raised == [t |-> "raised"]

\* Mutant of TryParse: JSON.parse without the try/catch around it.
TryParseUncaught(text) ==
    IF JSONparse(text).threw THEN Raised ELSE JSONparse(text).value

\* try { return JSON.parse(text); } catch (e) { return null; }
TryParse(text) ==
    IF JSONparse(text).threw THEN Null ELSE JSONparse(text).value

\* extractJson of Parse Container Response.
extractJson(text) ==
    IF text = <<>> THEN Null
    ELSE TryParse(SliceBraces(Trim(RemoveFences(text))))

\* extractJson of Parse PKL Response: the same steps, the fence markers being
\* removed inside each match instead of by a capture group.
extractJsonPkl(text) ==
    IF text = <<>> THEN Null
    ELSE TryParse(SliceBraces(Trim(RemoveFences(text))))

(***************************************************************************)
(* The reducers.  A run's outcome records whether the Code node threw, what *)
(* extractJson returned for each input item (history) and the json of the  *)
(* single item the node returns.                                           *)
(***************************************************************************)
Threw(parsed) == [threw |-> TRUE, parsed |-> parsed, json |-> Undefined]
Returned(parsed, json) == [threw |-> FALSE, parsed |-> parsed, json |-> json]

RECURSIVE Concat(_)
Concat(ss) == IF ss = <<>> THEN <<>> ELSE Head(ss) \o Concat(Tail(ss))

\* Mutant of Dedup: [...allContainers], without the Set.
DedupNothing(s) == s

\* [...new Set(allContainers)]: first occurrences, in insertion order.
RECURSIVE Dedup(_)
Dedup(s) ==
    IF s = <<>> THEN <<>>
    ELSE LET front == Dedup(SubSeq(s, 1, Len(s) - 1))
             last == s[Len(s)]
         IN  IF \E i \in DOMAIN front : front[i] = last THEN front
             ELSE Append(front, last)

\* Lines 442-446: what one parsed reply pushes onto allContainers.
BillContribution(parsed) ==
    IF ~Truthy(parsed) THEN <<>>
    ELSE LET c == Get(parsed, "container_numbers")
         IN  IF Truthy(c) /\ IsArray(c) THEN c.e ELSE <<>>

\* Parse Container Response, lines 439-454.
reduceBillResults(texts) ==
    LET parsed == [i \in DOMAIN texts |-> extractJson(texts[i])]
    IN  IF \E i \in DOMAIN texts : parsed[i] = Raised THEN Threw(parsed)
        ELSE Returned(parsed,
                 Obj([k \in {"container_numbers"} |->
                        Arr(Dedup(Concat([i \in DOMAIN texts |->
                                             BillContribution(parsed[i])])))]))

\* The accumulators of Parse PKL Response, lines 549-552.
PklStart ==
    [allItems |-> <<>>, docTotalFromSheet |-> Null,
     llmReportedSum |-> Null, llmChecksumOk |-> Null]

\* Mutant of PklStep: the first reported total is kept (first-write-wins).
PklStepFirstTotalWins(acc, parsed) ==
    IF ~Truthy(parsed) THEN acc
    ELSE [allItems |->
             IF IsArray(Get(parsed, "items"))
             THEN acc.allItems \o Get(parsed, "items").e
             ELSE acc.allItems,
          docTotalFromSheet |->
             IF NotNullish(Get(parsed, "doc_total_qty_from_sheet"))
                  /\ acc.docTotalFromSheet = Null
             THEN Number(Get(parsed, "doc_total_qty_from_sheet"))
             ELSE acc.docTotalFromSheet,
          llmReportedSum |->
             IF NotNullish(Get(parsed, "qty_sum"))
             THEN Number(Get(parsed, "qty_sum"))
             ELSE acc.llmReportedSum,
          llmChecksumOk |->
             IF Get(parsed, "checksum_ok").t = "boolean"
             THEN Get(parsed, "checksum_ok")
             ELSE acc.llmChecksumOk]

\* Lines 574-587: one parsed reply folded into the accumulators.
PklStep(acc, parsed) ==
    IF ~Truthy(parsed) THEN acc
    ELSE [allItems |->
             IF IsArray(Get(parsed, "items"))
             THEN acc.allItems \o Get(parsed, "items").e
             ELSE acc.allItems,
          docTotalFromSheet |->
             IF NotNullish(Get(parsed, "doc_total_qty_from_sheet"))
             THEN Number(Get(parsed, "doc_total_qty_from_sheet"))
             ELSE acc.docTotalFromSheet,
          llmReportedSum |->
             IF NotNullish(Get(parsed, "qty_sum"))
             THEN Number(Get(parsed, "qty_sum"))
             ELSE acc.llmReportedSum,
          llmChecksumOk |->
             IF Get(parsed, "checksum_ok").t = "boolean"
             THEN Get(parsed, "checksum_ok")
             ELSE acc.llmChecksumOk]

RECURSIVE PklLoop(_, _)
PklLoop(acc, parsed) ==
    IF parsed = <<>> THEN acc
    ELSE PklLoop(PklStep(acc, Head(parsed)), Tail(parsed))

\* Mutant of QtyOf: Number(it.qty_expected) || 1.
QtyOfDefaultOne(it) ==
    LET q == Number(Get(it, "qty_expected"))
    IN  IF Truthy(q) THEN q.n ELSE 1

\* Line 592: Number(it.qty_expected) || 0, as an integer.
QtyOf(it) ==
    LET q == Number(Get(it, "qty_expected"))
    IN  IF Truthy(q) THEN q.n ELSE 0

\* Lines 591-594: allItems.reduce((acc, it) => acc + (Number(it.qty_expected) || 0), 0)
RECURSIVE recomputedSum(_)
recomputedSum(allItems) ==
    IF allItems = <<>> THEN 0
    ELSE recomputedSum(SubSeq(allItems, 1, Len(allItems) - 1))
           + QtyOf(allItems[Len(allItems)])

\* Reading it.qty_expected throws a TypeError when it is null or undefined.
ItemReadThrows(allItems) == \E i \in DOMAIN allItems : ~NotNullish(allItems[i])

\* Mutant of checksumOk: the global isFinite, which coerces null to 0.
checksumOkCoercing(sum, docTotalFromSheet) ==
    IF docTotalFromSheet.t = "number" THEN Bool(sum = docTotalFromSheet.n)
    ELSE IF docTotalFromSheet.t = "null" THEN Bool(sum = 0)
    ELSE Null

\* Lines 596-599.
checksumOk(sum, docTotalFromSheet) ==
    IF IsFinite(docTotalFromSheet) THEN Bool(sum = docTotalFromSheet.n) ELSE Null

\* Mutant of PklRecord: the model's own sum and flag are used when it sent them.
PklRecordTrustsModel(acc) ==
    Obj([k \in {"pkl_items", "qty_sum", "doc_total_qty", "checksum_ok",
                "llm_reported_sum", "llm_checksum_ok"} |->
           CASE k = "pkl_items" -> Arr(acc.allItems)
             [] k = "qty_sum" ->
                    IF acc.llmReportedSum.t = "number" THEN acc.llmReportedSum
                    ELSE Num(recomputedSum(acc.allItems))
             [] k = "doc_total_qty" -> acc.docTotalFromSheet
             [] k = "checksum_ok" ->
                    IF IsFinite(acc.docTotalFromSheet)
                    THEN Bool(recomputedSum(acc.allItems) = acc.docTotalFromSheet.n)
                    ELSE acc.llmChecksumOk
             [] k = "llm_reported_sum" -> acc.llmReportedSum
             [] k = "llm_checksum_ok" -> acc.llmChecksumOk])

\* Mutant of PklRecord: pkl_items through a Set, as the bill reducer does.
PklRecordDedup(acc) ==
    Obj([k \in {"pkl_items", "qty_sum", "doc_total_qty", "checksum_ok",
                "llm_reported_sum", "llm_checksum_ok"} |->
           CASE k = "pkl_items" -> Arr(Dedup(acc.allItems))
             [] k = "qty_sum" -> Num(recomputedSum(Dedup(acc.allItems)))
             [] k = "doc_total_qty" -> acc.docTotalFromSheet
             [] k = "checksum_ok" ->
                    checksumOk(recomputedSum(Dedup(acc.allItems)), acc.docTotalFromSheet)
             [] k = "llm_reported_sum" -> acc.llmReportedSum
             [] k = "llm_checksum_ok" -> acc.llmChecksumOk])

\* Lines 601-610: the record the node returns.
PklRecord(acc) ==
    Obj([k \in {"pkl_items", "qty_sum", "doc_total_qty", "checksum_ok",
                "llm_reported_sum", "llm_checksum_ok"} |->
           CASE k = "pkl_items" -> Arr(acc.allItems)
             [] k = "qty_sum" -> Num(recomputedSum(acc.allItems))
             [] k = "doc_total_qty" -> acc.docTotalFromSheet
             [] k = "checksum_ok" ->
                    checksumOk(recomputedSum(acc.allItems), acc.docTotalFromSheet)
             [] k = "llm_reported_sum" -> acc.llmReportedSum
             [] k = "llm_checksum_ok" -> acc.llmChecksumOk])

\* Parse PKL Response, lines 571-610.
reducePackingList(texts) ==
    LET parsed == [i \in DOMAIN texts |-> extractJsonPkl(texts[i])]
    IN  IF \E i \in DOMAIN texts : parsed[i] = Raised THEN Threw(parsed)
        ELSE LET acc == PklLoop(PklStart, parsed)
             IN  IF ItemReadThrows(acc.allItems) THEN Threw(parsed)
                 ELSE Returned(parsed, PklRecord(acc))

(***************************************************************************)
(* Specification of the response extractor: every raw reply of at most     *)
(* MaxRawLen tokens, then one call of either copy of extractJson.          *)
(***************************************************************************)
ContainerMember == Member("container_numbers", Arr(<<Str("ABCD1234567")>>))

RawAlphabet == {LB, RB, WS, X, FO, FC, ContainerMember}

RECURSIVE SeqsUpTo(_, _)
SeqsUpTo(S, n) ==
    IF n = 0 THEN {<<>>}
    ELSE LET shorter == SeqsUpTo(S, n - 1)
         IN  shorter \cup {Append(s, x) : s \in {u \in shorter : Len(u) = n - 1}, x \in S}

\* The fenced reply "Sure! <FO> {"container_numbers":["ABCD1234567"]} <FC>" and
\* the reply "not json at all".
SureFenced == <<X, WS, FO, WS, LB, ContainerMember, RB, WS, FC>>
NotJsonAtAll == <<X, WS, X, WS, X, WS, X>>

SampleRaws == {SureFenced, NotJsonAtAll, <<Scalar(Num(7))>>, <<X, Scalar(Num(7))>>}

RawReplies == SeqsUpTo(RawAlphabet, MaxRawLen) \cup SampleRaws

NotRun == [t |-> "notrun"]

ClsIdle == filename = <<>> /\ attachmentType = "none"
ExtIdle == raw = <<>> /\ extractor = "none" /\ extracted = NotRun
RedIdle == replies = <<>> /\ branch = "none" /\ reduced = NotRun /\ reducedAlt = NotRun
PipeIdle ==
    /\ attachments = <<>>
    /\ inbox = <<>>
    /\ reached = {}
    /\ finalRecords = <<>>
    /\ aborted = FALSE

InitExtract ==
    /\ raw \in RawReplies
    /\ extractor = "none"
    /\ extracted = NotRun
    /\ ClsIdle /\ RedIdle /\ PipeIdle

ExtractBill ==
    /\ extractor = "none"
    /\ extractor' = "bill"
    /\ extracted' = extractJson(raw)
    /\ UNCHANGED <<raw, clsVars, redVars, pipeVars>>

ExtractPkl ==
    /\ extractor = "none"
    /\ extractor' = "pkl"
    /\ extracted' = extractJsonPkl(raw)
    /\ UNCHANGED <<raw, clsVars, redVars, pipeVars>>

NextExtract == ExtractBill \/ ExtractPkl

SpecExtract == InitExtract /\ [][NextExtract]_vars

(***************************************************************************)
(* Specification of the reducers: one run of either reducer over at most   *)
(* MaxReplies raw replies.  The packing-list run is paired with a run over *)
(* replies that differ only in the values of the model's self-reported     *)
(* qty_sum and checksum_ok.                                                *)
(***************************************************************************)
JsonText(members) == <<LB>> \o members \o <<RB>>
Fenced(text) == <<X, WS, FO, WS>> \o text \o <<WS, FC>>
Leading(text) == <<X, WS>> \o text
Trailing(text) == text \o <<WS, X>>

Containers(list) == Member("container_numbers", Arr(list))

BillReplies ==
    { JsonText(<<Containers(<<Str("ABCD1234567")>>)>>),
      Fenced(JsonText(<<Containers(<<Str("ABCD1234567")>>)>>)),
      JsonText(<<Containers(<<Str("ABCD1234567"), Str("EFGH7654321")>>)>>),
      Leading(JsonText(<<Containers(<<Str("EFGH7654321"), Str("EFGH7654321")>>)>>)),
      Trailing(JsonText(<<Containers(<<Str("IJKL0000001")>>)>>)),
      JsonText(<<Member("container_numbers", Str("ABCD1234567"))>>),
      NotJsonAtAll,
      <<>> }

Item(sku, qty) ==
    Obj([k \in {"sku", "qty_expected"} |-> IF k = "sku" THEN Str(sku) ELSE qty])

ItemsAB == Arr(<<Item("A", Num(50)), Item("B", Num(63))>>)

PklExample113 ==
    JsonText(<<Member("items", ItemsAB),
               Member("doc_total_qty_from_sheet", Num(113)),
               Member("qty_sum", Num(113)),
               Member("checksum_ok", Bool(TRUE))>>)
PklExample100 ==
    JsonText(<<Member("items", ItemsAB),
               Member("doc_total_qty_from_sheet", Num(100))>>)
PklExampleNull ==
    Fenced(JsonText(<<Member("items", ItemsAB),
                      Member("doc_total_qty_from_sheet", Null),
                      Member("qty_sum", Num(113))>>))

PklReplies ==
    { PklExample113, PklExample100, PklExampleNull,
      JsonText(<<Member("items", Arr(<<Item("C", Str("N/A"))>>))>>),
      JsonText(<<Member("doc_total_qty_from_sheet", Str("N/A"))>>),
      JsonText(<<Member("items", Str("oops")),
                 Member("doc_total_qty_from_sheet", Num(1))>>),
      JsonText(<<Member("items", Arr(<<Item("A", Str("50")),
                                       Obj([k \in {"sku"} |-> Str("D")])>>)),
                 Member("doc_total_qty_from_sheet", Str("2"))>>),
      JsonText(<<Member("items", Arr(<<Null>>))>>),
      JsonText(<<>>),
      <<Scalar(Num(7))>>,
      NotJsonAtAll }

\* The values a self-reported member may take instead of its own.
TokVariants(tok) ==
    IF tok.t = "member" /\ tok.k = "qty_sum"
    THEN {tok, Member("qty_sum", Num(999))}
    ELSE IF tok.t = "member" /\ tok.k = "checksum_ok"
    THEN {tok} \cup {Member("checksum_ok", v) : v \in {Bool(TRUE), Bool(FALSE)}}
    ELSE {tok}

RECURSIVE Product(_)
Product(sets) ==
    IF sets = <<>> THEN {<<>>}
    ELSE {<<h>> \o t : h \in Head(sets), t \in Product(Tail(sets))}

TextVariants(text) == Product([i \in DOMAIN text |-> TokVariants(text[i])])

SeqVariants(texts) == Product([i \in DOMAIN texts |-> TextVariants(texts[i])])

InitReduce ==
    /\ \/ branch = "bill" /\ replies \in SeqsUpTo(BillReplies, MaxReplies)
       \/ branch = "pkl" /\ replies \in SeqsUpTo(PklReplies, MaxReplies)
    /\ reduced = NotRun
    /\ reducedAlt = NotRun
    /\ ClsIdle /\ ExtIdle /\ PipeIdle

ReduceBill ==
    /\ branch = "bill"
    /\ reduced = NotRun
    /\ reduced' = reduceBillResults(replies)
    /\ UNCHANGED <<replies, branch, reducedAlt, clsVars, extVars, pipeVars>>

ReducePkl ==
    /\ branch = "pkl"
    /\ reduced = NotRun
    /\ reduced' = reducePackingList(replies)
    /\ \E alt \in SeqVariants(replies) : reducedAlt' = reducePackingList(alt)
    /\ UNCHANGED <<replies, branch, clsVars, extVars, pipeVars>>

NextReduce == ReduceBill \/ ReducePkl

SpecReduce == InitReduce /\ [][NextReduce]_vars

(***************************************************************************)
(* Claims about the reducers (SpecReduce).                                 *)
(***************************************************************************)
PklRan == branch = "pkl" /\ reduced # NotRun
PklReturned == PklRan /\ ~reduced.threw

\* The items array a parsed reply carries, empty when it carries none.
ItemsIn(parsed) ==
    IF parsed.t = "object" /\ "items" \in DOMAIN parsed.f /\ parsed.f["items"].t = "array"
    THEN parsed.f["items"].e
    ELSE <<>>

\* The quantity an item states: a number, a decimal string, otherwise nothing.
StatedQty(it) ==
    IF it.t = "object" /\ "qty_expected" \in DOMAIN it.f
    THEN LET q == it.f["qty_expected"]
         IN  IF q.t = "number" THEN q.n
             ELSE IF q.t = "string" /\ q.s \in DOMAIN NumericStrings
             THEN NumericStrings[q.s]
             ELSE 0
    ELSE 0

RECURSIVE SumStated(_)
SumStated(items) ==
    IF items = <<>> THEN 0 ELSE StatedQty(Head(items)) + SumStated(Tail(items))

\* C1: whenever the packing-list reducer returns, qty_sum is the sum of the
\* quantities of all concatenated items, and checksum_ok is (qty_sum =
\* doc_total_qty) when doc_total_qty is a finite number and null otherwise;
\* items 50 and 63 give 113 with checksum true for total 113, false for total
\* 100 and null for a null total.
C1_ChecksumRecomputed ==
    PklReturned =>
        LET out == reduced.json.f
            items == Concat([i \in DOMAIN replies |-> ItemsIn(reduced.parsed[i])])
        IN  /\ out["qty_sum"] = Num(SumStated(items))
            /\ out["checksum_ok"] =
                   IF out["doc_total_qty"].t = "number"
                   THEN Bool(out["qty_sum"].n = out["doc_total_qty"].n)
                   ELSE Null
            /\ replies = <<PklExample113>> =>
                   out["qty_sum"] = Num(113) /\ out["checksum_ok"] = Bool(TRUE)
            /\ replies = <<PklExample100>> =>
                   out["qty_sum"] = Num(113) /\ out["checksum_ok"] = Bool(FALSE)
            /\ replies = <<PklExampleNull>> =>
                   out["qty_sum"] = Num(113) /\ out["checksum_ok"] = Null

\* C1 witness: a run over several replies whose items and total come from
\* different replies and whose recomputed sum disagrees with the total.
C1_Witness ==
    /\ PklReturned
    /\ Len(replies) >= 2
    /\ reduced.json.f["qty_sum"] = Num(113)
    /\ reduced.json.f["doc_total_qty"] = Num(1)
    /\ reduced.json.f["checksum_ok"] = Bool(FALSE)

\* C2: two packing-list runs over replies that differ only in the values of
\* the self-reported qty_sum / checksum_ok end alike and return the same
\* pkl_items, qty_sum, doc_total_qty and checksum_ok.
C2_SelfReportIgnored ==
    PklRan =>
        /\ reducedAlt # NotRun
        /\ reduced.threw = reducedAlt.threw
        /\ ~reduced.threw =>
              \A k \in {"pkl_items", "qty_sum", "doc_total_qty", "checksum_ok"} :
                  reduced.json.f[k] = reducedAlt.json.f[k]

\* C2 witness: the two runs did see different self-reported values, with no
\* document total to reconcile against.
C2_Witness ==
    /\ PklReturned
    /\ ~reducedAlt.threw
    /\ reduced.json.f["llm_reported_sum"] # reducedAlt.json.f["llm_reported_sum"]
    /\ reduced.json.f["llm_checksum_ok"] # reducedAlt.json.f["llm_checksum_ok"]
    /\ reduced.json.f["checksum_ok"] = Null

\* A raw reply that cannot be parsed as JSON: with its fences stripped,
\* neither the text nor its first-brace-to-last-brace slice is JSON.
CannotBeParsed(text) ==
    LET t == Trim(RemoveFences(text))
        start == IndexOf(t, LB)
        end == LastIndexOf(t, RB)
    IN  /\ JSONparse(t).threw
        /\ (start # 0 /\ end > start) => JSONparse(SubSeq(t, start, end)).threw

CanBeParsed(text) == ~CannotBeParsed(text)

ReducerOf(b, texts) ==
    IF b = "bill" THEN reduceBillResults(texts) ELSE reducePackingList(texts)

\* C3: extractJson returns null, never raising, for every reply that cannot
\* be parsed as JSON, and either reducer ends as it does on the same replies
\* with the unparseable ones removed.
C3_UnparseableContributesNothing ==
    reduced # NotRun =>
        /\ \A i \in DOMAIN replies :
              CannotBeParsed(replies[i]) => reduced.parsed[i] = Null
        /\ LET kept == ReducerOf(branch, SelectSeq(replies, CanBeParsed))
           IN  kept.threw = reduced.threw /\ kept.json = reduced.json

\* C3 witness: "not json at all" between two parseable replies, both of
\* which are aggregated.
C3_Witness ==
    /\ branch = "bill"
    /\ reduced # NotRun
    /\ ~reduced.threw
    /\ Len(replies) = 3
    /\ replies[2] = NotJsonAtAll
    /\ reduced.parsed[2] = Null
    /\ reduced.json.f["container_numbers"] =
           Arr(<<Str("ABCD1234567"), Str("EFGH7654321")>>)
    /\ BillContribution(reduced.parsed[1]) = <<Str("ABCD1234567")>>
    /\ BillContribution(reduced.parsed[3]) = <<Str("EFGH7654321"), Str("EFGH7654321")>>

\* An item whose qty_expected is a number or a decimal string.
HasNumericQty(it) ==
    /\ it.t = "object"
    /\ "qty_expected" \in DOMAIN it.f
    /\ \/ it.f["qty_expected"].t = "number"
       \/ /\ it.f["qty_expected"].t = "string"
          /\ it.f["qty_expected"].s \in DOMAIN NumericStrings

AllItemsOf(parsed) == Concat([i \in DOMAIN parsed |-> ItemsIn(parsed[i])])

NotApplicableReply == JsonText(<<Member("items", Arr(<<Item("C", Str("N/A"))>>))>>)

\* C11: an item whose qty_expected is non-numeric ("N/A") or missing adds 0
\* to qty_sum and stays in pkl_items: pkl_items has one entry per item of the
\* replies whatever the quantities are, and qty_sum is the sum over the items
\* with a numeric quantity only; the item {sku "C", qty_expected "N/A"} alone
\* gives qty_sum 0 and one entry.
C11_NonNumericCountsZero ==
    PklReturned =>
        LET out == reduced.json.f
            items == AllItemsOf(reduced.parsed)
        IN  /\ Len(out["pkl_items"].e) = Len(items)
            /\ \A i \in DOMAIN items :
                  ~HasNumericQty(items[i]) => out["pkl_items"].e[i] = items[i]
            /\ out["qty_sum"] = Num(SumStated(SelectSeq(items, HasNumericQty)))
            /\ replies = <<NotApplicableReply>> =>
                  /\ out["qty_sum"] = Num(0)
                  /\ out["pkl_items"] = Arr(<<Item("C", Str("N/A"))>>)

\* C11 witness: a run whose items hold an "N/A" quantity, a missing quantity
\* and numeric ones, with a non-zero sum.
C11_Witness ==
    /\ PklReturned
    /\ reduced.json.f["qty_sum"].n > 0
    /\ \E i, j \in DOMAIN reduced.json.f["pkl_items"].e :
          LET a == reduced.json.f["pkl_items"].e[i]
              b == reduced.json.f["pkl_items"].e[j]
          IN  /\ a.t = "object" /\ "qty_expected" \notin DOMAIN a.f
              /\ b = Item("C", Str("N/A"))

\* Every element of sequence a occurs in sequence b.
AllIn(a, b) == \A i \in DOMAIN a : \E j \in DOMAIN b : b[j] = a[i]

\* C13: for every sequence of parseable replies of any shape (the field
\* missing or not an array, an items array holding null, a non-object JSON
\* value) both reducers return without raising, their record holding what the
\* well-formed replies contributed.
C13_ReducersNeverRaise ==
    reduced # NotRun =>
        /\ ~reduced.threw
        /\ branch = "bill" =>
              \A i \in DOMAIN replies :
                  AllIn(BillContribution(reduced.parsed[i]),
                        reduced.json.f["container_numbers"].e)
        /\ branch = "pkl" =>
              \A i \in DOMAIN replies :
                  AllIn(ItemsIn(reduced.parsed[i]), reduced.json.f["pkl_items"].e)

\* A parsed reply that reports a document total other than null.
ReportsTotal(parsed) ==
    /\ parsed.t = "object"
    /\ "doc_total_qty_from_sheet" \in DOMAIN parsed.f
    /\ parsed.f["doc_total_qty_from_sheet"].t # "null"

\* The numeric value of a reported total: the number, the number a decimal
\* string denotes, and not-a-number for any other text.
NumericValue(v) ==
    IF v.t = "number" THEN v
    ELSE IF v.t = "string" /\ v.s \in DOMAIN NumericStrings
    THEN Num(NumericStrings[v.s])
    ELSE NaN

\* C14: doc_total_qty is the numeric value of the total of the last reply
\* that reported a non-null total; replies after it with a null or absent
\* total leave it unchanged; it is null exactly when no reply reported one.
C14_LastTotalWins ==
    PklReturned =>
        LET reporting == {i \in DOMAIN replies : ReportsTotal(reduced.parsed[i])}
            out == reduced.json.f["doc_total_qty"]
        IN  /\ (out = Null) <=> (reporting = {})
            /\ reporting # {} =>
                  LET last == CHOOSE i \in reporting : \A j \in reporting : j <= i
                  IN  out = NumericValue(
                                reduced.parsed[last].f["doc_total_qty_from_sheet"])

\* C14 witness: totals 113 then 100 then a null total: 100 is recorded.
C14_Witness ==
    /\ PklReturned
    /\ replies = <<PklExample113, PklExample100, PklExampleNull>>
    /\ reduced.json.f["doc_total_qty"] = Num(100)
    /\ reduced.json.f["checksum_ok"] = Bool(FALSE)

\* The number of items the replies before the i-th carry.
RECURSIVE ItemsBefore(_, _)
ItemsBefore(parsed, i) ==
    IF i = 1 THEN 0
    ELSE ItemsBefore(parsed, i - 1) + Len(ItemsIn(parsed[i - 1]))

\* C15: pkl_items is the items arrays of the parseable replies one after the
\* other (null results and non-array items skipped): the j-th item of the
\* i-th reply sits after all items of the earlier replies and its own
\* predecessors, the length is the sum of the lengths, and rows with the same
\* SKU stay separate rows, each adding its quantity to qty_sum.
C15_ItemsConcatenatedInOrder ==
    PklReturned =>
        LET out == reduced.json.f
            parsed == reduced.parsed
        IN  /\ Len(out["pkl_items"].e) = ItemsBefore(parsed, Len(parsed) + 1)
            /\ \A i \in DOMAIN parsed : \A j \in DOMAIN ItemsIn(parsed[i]) :
                  out["pkl_items"].e[ItemsBefore(parsed, i) + j] = ItemsIn(parsed[i])[j]
            /\ out["qty_sum"].n = SumStated(out["pkl_items"].e)
            /\ replies = <<PklExample113, PklExample113>> =>
                  /\ out["pkl_items"] = Arr(ItemsAB.e \o ItemsAB.e)
                  /\ out["qty_sum"] = Num(226)

\* C15 witness: the same two rows reported twice, with an unparseable reply
\* between them: four rows, quantities summed to 226.
C15_Witness ==
    /\ PklReturned
    /\ replies = <<PklExample113, NotJsonAtAll, PklExample100>>
    /\ reduced.json.f["pkl_items"] = Arr(ItemsAB.e \o ItemsAB.e)
    /\ reduced.json.f["qty_sum"] = Num(226)

(***************************************************************************)
(* The attachment classifier (Classify Attachment).  A filename is a       *)
(* sequence of characters.                                                 *)
(***************************************************************************)
Uppers ==
    <<"A", "B", "C", "D", "E", "F", "G", "H", "I", "J", "K", "L", "M",
      "N", "O", "P", "Q", "R", "S", "T", "U", "V", "W", "X", "Y", "Z">>
Lowers ==
    <<"a", "b", "c", "d", "e", "f", "g", "h", "i", "j", "k", "l", "m",
      "n", "o", "p", "q", "r", "s", "t", "u", "v", "w", "x", "y", "z">>
Digits == {"0", "1", "2", "3", "4", "5", "6", "7", "8", "9"}
Letters == {Uppers[i] : i \in DOMAIN Uppers} \cup {Lowers[i] : i \in DOMAIN Lowers}

LowerOf ==
    [u \in {Uppers[i] : i \in DOMAIN Uppers} |->
        Lowers[CHOOSE i \in DOMAIN Uppers : Uppers[i] = u]]

LowerChar(c) == IF c \in DOMAIN LowerOf THEN LowerOf[c] ELSE c

\* String.prototype.toLowerCase
toLowerCase(name) == [i \in DOMAIN name |-> LowerChar(name[i])]

\* The regular expression class \w.
IsWordChar(c) == c \in Letters \cup Digits \cup {"_"}

\* The assertion \b after the first pos characters of name (0 <= pos <= Len).
WordBoundary(name, pos) ==
    LET before == pos >= 1 /\ IsWordChar(name[pos])
        after == pos < Len(name) /\ IsWordChar(name[pos + 1])
    IN  before # after

\* word occurs in name at index i, letter case ignored.
MatchesAt(name, word, i) ==
    /\ i >= 1
    /\ i + Len(word) - 1 <= Len(name)
    /\ \A j \in DOMAIN word : LowerChar(name[i + j - 1]) = LowerChar(word[j])

\* Mutant of containsWord: a substring test, name.includes(word).
containsSubstring(name, word) ==
    \E i \in DOMAIN name : MatchesAt(name, word, i)

\* Lines 187-189: new RegExp("\\bword\\b", 'i').test(name)
containsWord(name, word) ==
    \E i \in DOMAIN name :
        /\ MatchesAt(name, word, i)
        /\ WordBoundary(name, i - 1)
        /\ WordBoundary(name, i + Len(word) - 1)

\* Lines 183-185: name.toLowerCase().endsWith(ext.toLowerCase())
hasExt(name, ext) ==
    /\ Len(ext) <= Len(name)
    /\ SubSeq(toLowerCase(name), Len(name) - Len(ext) + 1, Len(name)) = toLowerCase(ext)

WordBill == <<"b", "i", "l", "l">>
WordBol == <<"b", "o", "l">>
WordCi == <<"c", "i">>
WordPkl == <<"p", "k", "l">>
WordPack == <<"p", "a", "c", "k">>
WordPacking == <<"p", "a", "c", "k", "i", "n", "g">>
ExtPdf == <<".", "p", "d", "f">>
ExtXlsx == <<".", "x", "l", "s", "x">>
ExtTxt == <<".", "t", "x", "t">>

\* Lines 194-208: the rule chain of Classify Attachment.
classify(filenameRaw) ==
    LET name == toLowerCase(filenameRaw)
    IN  IF (containsWord(name, WordBill) \/ containsWord(name, WordBol))
           /\ hasExt(name, ExtPdf)
        THEN "bill"
        ELSE IF containsWord(name, WordCi) /\ hasExt(name, ExtXlsx)
        THEN "commercial_invoice"
        ELSE IF (containsWord(name, WordPkl) \/ containsWord(name, WordPack)
                   \/ containsWord(name, WordPacking))
                /\ hasExt(name, ExtXlsx)
        THEN "packaging_list"
        ELSE "unknown"

(***************************************************************************)
(* Specification of the classifier: a filename made of at most MaxPieces   *)
(* pieces (keywords, a letter, a digit, separators) and an extension, or   *)
(* one of the sample filenames; then classify.                             *)
(***************************************************************************)
Pieces ==
    { WordBill, WordBol, WordCi, WordPkl, WordPack, WordPacking,
      <<"a">>, <<"9">>, <<"_">>, <<" ">>, <<"-">>, <<".">> }

BillOfLadingPdf == <<"B", "i", "l", "l", "_", "o", "f", "_", "L", "a", "d", "i", "n", "g", ".", "p", "d", "f">>
MobileHomePdf == <<"m", "o", "b", "i", "l", "e", "h", "o", "m", "e", ".", "p", "d", "f">>
ResponsibleReportPdf == 
    <<"r", "e", "s", "p", "o", "n", "s", "i", "b", "l", "e", "_", "r", "e", "p", "o", "r", "t", ".", "p", "d", "f">>
SampleFilenames ==
    { BillOfLadingPdf, MobileHomePdf, ResponsibleReportPdf,
      <<"B", "i", "l", "l", "-", "7", ".", "P", "d", "f">>,
      <<"s", "c", "a", "n", ".", "b", "o", "l", ".", "p", "d", "f">>,
      <<"P", "a", "c", "k", "i", "n", "g", " ", "L", "i", "s", "t", ".", "x", "l", "s", "x">>,
      <<"B", "O", "L", "-", "1", "2", "3", ".", "P", "D", "F">>,
      <<"C", "I", " ", "2", "0", "2", "5", ".", "x", "l", "s", "x">> }

Filenames ==
    {Concat(stem) \o ext : stem \in SeqsUpTo(Pieces, MaxPieces),
                           ext \in {ExtPdf, ExtXlsx, ExtTxt}}
      \cup SampleFilenames

InitClassify ==
    /\ filename \in Filenames
    /\ attachmentType = "none"
    /\ ExtIdle /\ RedIdle /\ PipeIdle

Classify ==
    /\ attachmentType = "none"
    /\ attachmentType' = classify(filename)
    /\ UNCHANGED <<filename, extVars, redVars, pipeVars>>

NextClassify == Classify

SpecClassify == InitClassify /\ [][NextClassify]_vars

(***************************************************************************)
(* Claims about the classifier (SpecClassify).                             *)
(***************************************************************************)
Classified == attachmentType # "none"

Separators == {"_", " ", "-", "."}

\* word occurs in name delimited on both sides by a separator or an end.
DelimitedWord(name, word) ==
    \E i \in DOMAIN name :
        /\ MatchesAt(name, word, i)
        /\ (i = 1 \/ name[i - 1] \in Separators)
        /\ (i + Len(word) - 1 = Len(name) \/ name[i + Len(word)] \in Separators)

\* word occurs in name with no letter directly before or after it.
WholeWord(name, word) ==
    \E i \in DOMAIN name :
        /\ MatchesAt(name, word, i)
        /\ (i = 1 \/ name[i - 1] \notin Letters)
        /\ (i + Len(word) - 1 = Len(name) \/ name[i + Len(word)] \notin Letters)

\* C5: "Bill_of_Lading.pdf" is classified bill, and so is every .pdf filename
\* in which "bill" or "bol" stands as a word delimited by underscore, space,
\* hyphen, dot or an end of the name, in any letter case.
C5_DelimitedBillIsBill ==
    Classified =>
        /\ filename = BillOfLadingPdf => attachmentType = "bill"
        /\ (hasExt(filename, ExtPdf)
              /\ (DelimitedWord(filename, WordBill) \/ DelimitedWord(filename, WordBol)))
           => attachmentType = "bill"

\* C6: a label is assigned only on the right extension and a whole-word
\* keyword: bill needs .pdf and "bill"/"bol", packaging_list and
\* commercial_invoice need .xlsx and their keyword; keyword letters inside a
\* longer alphabetic word ("responsible_report.pdf", "mobilehome.pdf") give
\* unknown.
C6_NoSubstringMatch ==
    Classified =>
        /\ attachmentType \in {"bill", "commercial_invoice", "packaging_list", "unknown"}
        /\ attachmentType = "bill" =>
              /\ hasExt(filename, ExtPdf)
              /\ WholeWord(filename, WordBill) \/ WholeWord(filename, WordBol)
        /\ attachmentType = "commercial_invoice" =>
              /\ hasExt(filename, ExtXlsx)
              /\ WholeWord(filename, WordCi)
        /\ attachmentType = "packaging_list" =>
              /\ hasExt(filename, ExtXlsx)
              /\ \/ WholeWord(filename, WordPkl)
                 \/ WholeWord(filename, WordPack)
                 \/ WholeWord(filename, WordPacking)
        /\ filename \in {ResponsibleReportPdf, MobileHomePdf} => attachmentType = "unknown"

\* C6 witness: a .pdf whose only "bill" sits inside a longer alphabetic word
\* is classified unknown.
C6_Witness ==
    /\ attachmentType = "unknown"
    /\ hasExt(filename, ExtPdf)
    /\ containsSubstring(filename, WordBill)
    /\ ~WholeWord(filename, WordBill)

(***************************************************************************)
(* The workflow graph (create_workflow).  The host runs a node when items  *)
(* are delivered to its input and hands it the delivered items as          *)
(* $input.all(); a node that returns no item delivers nothing, so the      *)
(* nodes after it do not run.  inbox[n] holds the deliveries node n has    *)
(* not consumed yet.  An item carries src, the attachments it stems from,  *)
(* and the item Merge Results returns carries merged, the json of the      *)
(* items it was computed from (both history, for the claims).              *)
(***************************************************************************)
Nodes ==
    { "Classify Attachment", "Prepare Attachment", "Route by Type",
      "PDF to Text", "Prepare Bill Data", "Extract Container Numbers",
      "Parse Container Response",
      "Filter PKL Only", "Read XLSX", "Normalize PKL Grid",
      "Extract SKU & Quantities", "Parse PKL Response",
      "Merge Results", "Format Output" }

Range(seq) == {seq[i] : i \in DOMAIN seq}

Sources(items) == UNION {it.src : it \in Range(items)}

\* A node's output on one connection: nothing is delivered when it is empty.
Deliver(box, n, items) ==
    IF items = <<>> THEN box ELSE [box EXCEPT ![n] = Append(@, items)]

Ready(n) == ~aborted /\ inbox[n] # <<>>

Input(n) == Head(inbox[n])

Consumed(n) == [inbox EXCEPT ![n] = Tail(@)]

Visit(n, items) == reached \cup {<<n, i>> : i \in Sources(items)}

\* The filenames of the emails the pipeline is run on.
PipeFilenames ==
    { <<"b", "i", "l", "l", ".", "p", "d", "f">>,
      BillOfLadingPdf,
      <<"C", "I", " ", "2", "0", "2", "5", ".", "x", "l", "s", "x">>,
      <<"P", "a", "c", "k", "i", "n", "g", " ", "L", "i", "s", "t", ".", "x", "l", "s", "x">>,
      MobileHomePdf }

\* The replies the model gives in the pipeline runs.
PipeBillReplies ==
    { JsonText(<<Containers(<<Str("ABCD1234567")>>)>>),
      JsonText(<<Containers(<<Str("ABCD1234567"), Str("EFGH7654321")>>)>>),
      NotJsonAtAll }

PipePklReplies ==
    { PklExample113, PklExample100,
      JsonText(<<Member("items", Arr(<<Null>>))>>),
      NotJsonAtAll }

Init ==
    /\ attachments \in SeqsUpTo(PipeFilenames, MaxAttachments)
    /\ inbox =
          Deliver([n \in Nodes |-> <<>>], "Classify Attachment",
                  [i \in DOMAIN attachments |->
                      [src |-> {i}, filename |-> attachments[i]]])
    /\ reached = {}
    /\ finalRecords = <<>>
    /\ aborted = FALSE
    /\ ClsIdle /\ ExtIdle /\ RedIdle

\* A node that returns its input items unchanged and has one successor.
PassThrough(n, next) ==
    /\ Ready(n)
    /\ inbox' = Deliver(Consumed(n), next, Input(n))
    /\ reached' = Visit(n, Input(n))
    /\ UNCHANGED <<attachments, finalRecords, aborted, clsVars, extVars, redVars>>

\* Classify Attachment, lines 191-223.
ClassifyAttachment ==
    /\ Ready("Classify Attachment")
    /\ inbox' =
          Deliver(Consumed("Classify Attachment"), "Prepare Attachment",
                  [i \in DOMAIN Input("Classify Attachment") |->
                      [src |-> Input("Classify Attachment")[i].src,
                       filename |-> Input("Classify Attachment")[i].filename,
                       attachmentType |->
                           classify(Input("Classify Attachment")[i].filename)]])
    /\ reached' = Visit("Classify Attachment", Input("Classify Attachment"))
    /\ UNCHANGED <<attachments, finalRecords, aborted, clsVars, extVars, redVars>>

\* Prepare Attachment, lines 241-248.
PrepareAttachment == PassThrough("Prepare Attachment", "Route by Type")

\* Route by Type, lines 268-279: $json.attachmentType equals "bill".
RouteIsBill(item) == item.attachmentType = "bill"

RouteIsNotBill(item) == ~RouteIsBill(item)

\* Route by Type: true output to PDF to Text, false output to Filter PKL Only
\* (lines 716-721).
RouteByType ==
    /\ Ready("Route by Type")
    /\ inbox' =
          Deliver(Deliver(Consumed("Route by Type"), "PDF to Text",
                          SelectSeq(Input("Route by Type"), RouteIsBill)),
                  "Filter PKL Only",
                  SelectSeq(Input("Route by Type"), RouteIsNotBill))
    /\ reached' = Visit("Route by Type", Input("Route by Type"))
    /\ UNCHANGED <<attachments, finalRecords, aborted, clsVars, extVars, redVars>>

\* PDF to Text (the external decoder) and Prepare Bill Data keep one item per
\* bill attachment.
PdfToText == PassThrough("PDF to Text", "Prepare Bill Data")

PrepareBillData == PassThrough("Prepare Bill Data", "Extract Container Numbers")

\* The model call: one output item per input item, its text any reply.
ModelCall(n, next, answers) ==
    /\ Ready(n)
    /\ \E choice \in [DOMAIN Input(n) -> answers] :
          inbox' = Deliver(Consumed(n), next,
                           [i \in DOMAIN Input(n) |->
                               [src |-> Input(n)[i].src, text |-> choice[i]]])
    /\ reached' = Visit(n, Input(n))
    /\ UNCHANGED <<attachments, finalRecords, aborted, clsVars, extVars, redVars>>

ExtractContainerNumbers ==
    ModelCall("Extract Container Numbers", "Parse Container Response", PipeBillReplies)

\* The texts of a delivery: item.json.text of each item.
Texts(items) == [i \in DOMAIN items |-> items[i].text]

\* A reducer node: it returns one item, or it throws and the execution stops.
ReducerNode(n, outcome) ==
    /\ Ready(n)
    /\ IF outcome.threw
       THEN /\ aborted' = TRUE
            /\ inbox' = Consumed(n)
       ELSE /\ aborted' = FALSE
            /\ inbox' =
                  Deliver(Consumed(n), "Merge Results",
                          <<[src |-> Sources(Input(n)),
                             json |-> outcome.json,
                             inputs |-> Texts(Input(n))]>>)
    /\ reached' = Visit(n, Input(n))
    /\ UNCHANGED <<attachments, finalRecords, clsVars, extVars, redVars>>

\* reduceBillResults on every input the pipeline can hand it, computed once.
BillOutcome ==
    [texts \in SeqsUpTo(PipeBillReplies, MaxAttachments) |-> reduceBillResults(texts)]

\* Parse Container Response over the texts of its input items.
ParseContainerResponse ==
    /\ Ready("Parse Container Response")
    /\ ReducerNode("Parse Container Response",
                   BillOutcome[Texts(Input("Parse Container Response"))])

\* Mutant of FilterKeeps: the filter lets every item through.
FilterKeepsAll(item) == TRUE

\* Filter PKL Only, lines 300-311: $json.attachmentType equals "packaging_list".
FilterKeeps(item) == item.attachmentType = "packaging_list"

FilterPklOnly ==
    /\ Ready("Filter PKL Only")
    /\ inbox' = Deliver(Consumed("Filter PKL Only"), "Read XLSX",
                        SelectSeq(Input("Filter PKL Only"), FilterKeeps))
    /\ reached' = Visit("Filter PKL Only", Input("Filter PKL Only"))
    /\ UNCHANGED <<attachments, finalRecords, aborted, clsVars, extVars, redVars>>

\* Read XLSX (the external decoder): the rows of each sheet, one item here.
ReadXlsx == PassThrough("Read XLSX", "Normalize PKL Grid")

\* Normalize PKL Grid, lines 492-502: all rows of the run in one item.
NormalizePklGrid ==
    /\ Ready("Normalize PKL Grid")
    /\ inbox' = Deliver(Consumed("Normalize PKL Grid"), "Extract SKU & Quantities",
                        <<[src |-> Sources(Input("Normalize PKL Grid"))]>>)
    /\ reached' = Visit("Normalize PKL Grid", Input("Normalize PKL Grid"))
    /\ UNCHANGED <<attachments, finalRecords, aborted, clsVars, extVars, redVars>>

ExtractSkuQuantities ==
    ModelCall("Extract SKU & Quantities", "Parse PKL Response", PipePklReplies)

\* reducePackingList on every input the pipeline can hand it, computed once.
PklOutcome ==
    [texts \in SeqsUpTo(PipePklReplies, MaxAttachments) |-> reducePackingList(texts)]

ParsePklResponse ==
    /\ Ready("Parse PKL Response")
    /\ ReducerNode("Parse PKL Response",
                   PklOutcome[Texts(Input("Parse PKL Response"))])

\* Merge Results, the loop of the jsCode at line 624: the last item carrying
\* an array under key wins, [] when none does.
LastArray(items, key) ==
    LET has == {i \in DOMAIN items :
                   Truthy(Get(items[i].json, key)) /\ IsArray(Get(items[i].json, key))}
    IN  IF has = {} THEN Arr(<<>>)
        ELSE Get(items[CHOOSE i \in has : \A j \in has : j <= i].json, key)

mergeResults(items) ==
    Obj([k \in {"container_numbers", "pkl_items"} |-> LastArray(items, k)])

\* Mutant of MergeTakes: the node runs only on the deliveries of both parse nodes.
MergeWaitsForBoth(pending) == IF Len(pending) >= 2 THEN {Len(pending)} ELSE {}

\* Merge Results has one input, fed by both parse nodes (lines 741-743 and
\* 756-758): the host runs it on the delivery of one parse node, or on all the
\* deliveries pending when it runs.  The number of deliveries one run takes:
MergeTakes(pending) == {k \in {1, Len(pending)} : k >= 1}

MergeResults ==
    /\ Ready("Merge Results")
    /\ \E k \in MergeTakes(inbox["Merge Results"]) :
          LET items == Concat(SubSeq(inbox["Merge Results"], 1, k))
          IN  /\ inbox' =
                    Deliver([inbox EXCEPT !["Merge Results"] =
                                SubSeq(@, k + 1, Len(@))],
                            "Format Output",
                            <<[src |-> Sources(items),
                               json |-> mergeResults(items),
                               merged |-> [i \in DOMAIN items |-> items[i].json]]>>)
              /\ reached' = Visit("Merge Results", items)
    /\ UNCHANGED <<attachments, finalRecords, aborted, clsVars, extVars, redVars>>

\* value || []
OrEmptyArray(v) == IF Truthy(v) THEN v ELSE Arr(<<>>)

\* Format Output, lines 637-651.
formatOutput(json) ==
    Obj([k \in {"container_numbers", "sku_items"} |->
           IF k = "container_numbers"
           THEN OrEmptyArray(Get(json, "container_numbers"))
           ELSE OrEmptyArray(Get(json, "pkl_items"))])

FormatOutput ==
    /\ Ready("Format Output")
    /\ finalRecords' =
          finalRecords \o [i \in DOMAIN Input("Format Output") |->
                              formatOutput(Input("Format Output")[i].json)]
    /\ inbox' = Consumed("Format Output")
    /\ reached' = Visit("Format Output", Input("Format Output"))
    /\ UNCHANGED <<attachments, aborted, clsVars, extVars, redVars>>

Next ==
    \/ ClassifyAttachment
    \/ PrepareAttachment
    \/ RouteByType
    \/ PdfToText
    \/ PrepareBillData
    \/ ExtractContainerNumbers
    \/ ParseContainerResponse
    \/ FilterPklOnly
    \/ ReadXlsx
    \/ NormalizePklGrid
    \/ ExtractSkuQuantities
    \/ ParsePklResponse
    \/ MergeResults
    \/ FormatOutput

Spec == Init /\ [][Next]_vars

\* The host runs every node that has a delivery pending.
FairSpec == Spec /\ WF_vars(Next)

(***************************************************************************)
(* Claim about the response extractor (SpecExtract).                       *)
(***************************************************************************)
IsProse(text) == \A i \in DOMAIN text : text[i] \in {X, WS}

IsJsonObject(text) ==
    /\ Len(text) >= 2
    /\ text[1] = LB
    /\ text[Len(text)] = RB
    /\ ~JSONparse(text).threw

\* C4: for every raw reply prefix + J + suffix, J a well-formed JSON object
\* and prefix, suffix brace-free prose (either may be empty), extractJson
\* returns the object J.
C4_ProseAroundObject ==
    extractor # "none" =>
        \A i \in DOMAIN raw : \A j \in i..Len(raw) :
            (/\ IsProse(SubSeq(raw, 1, i - 1))
             /\ IsJsonObject(SubSeq(raw, i, j))
             /\ IsProse(SubSeq(raw, j + 1, Len(raw))))
            => extracted = JSONparse(SubSeq(raw, i, j)).value

(***************************************************************************)
(* Claims about the pipeline (Spec, FairSpec).                             *)
(***************************************************************************)
\* The label of each pipeline filename, computed once.
LabelOf == [f \in PipeFilenames |-> classify(f)]

TypeOf(i) == LabelOf[attachments[i]]

HasType(ty) == \E i \in DOMAIN attachments : TypeOf(i) = ty

CountType(ty) == Cardinality({i \in DOMAIN attachments : TypeOf(i) = ty})

BillPathNodes ==
    { "PDF to Text", "Prepare Bill Data", "Extract Container Numbers",
      "Parse Container Response" }

PklPathNodes ==
    { "Read XLSX", "Normalize PKL Grid", "Extract SKU & Quantities",
      "Parse PKL Response" }

TailNodes == {"Merge Results", "Format Output"}

\* C7: an attachment classified commercial_invoice or unknown reaches no
\* decoder, model call, reducer or later node; a bill reaches no node of the
\* packing-list path and a packaging_list no node of the bill path.
C7_RoutedToOnePath ==
    \A p \in reached :
        /\ TypeOf(p[2]) \in {"commercial_invoice", "unknown"} =>
              p[1] \notin BillPathNodes \cup PklPathNodes \cup TailNodes
        /\ TypeOf(p[2]) = "bill" =>
              p[1] \notin PklPathNodes \cup {"Filter PKL Only"}
        /\ TypeOf(p[2]) = "packaging_list" => p[1] \notin BillPathNodes

\* C7 witness: a commercial invoice was dropped at Filter PKL Only while a
\* packing list of the same email went on to the packing-list reducer.
C7_Witness ==
    \E i, j \in DOMAIN attachments :
        /\ TypeOf(i) = "commercial_invoice"
        /\ <<"Filter PKL Only", i>> \in reached
        /\ TypeOf(j) = "packaging_list"
        /\ <<"Parse PKL Response", j>> \in reached

NoDuplicates(seq) == \A i, j \in DOMAIN seq : i # j => seq[i] # seq[j]

\* The items Parse Container Response has returned and Merge Results has not
\* consumed yet.
BillOutputs ==
    {it \in UNION {Range(d) : d \in Range(inbox["Merge Results"])} :
        "container_numbers" \in DOMAIN it.json.f}

OneContainerReply == JsonText(<<Containers(<<Str("ABCD1234567")>>)>>)

\* C8: container_numbers as returned by the bill reducer holds no value
\* twice, a run over the same replies with one of them repeated returns the
\* same set (two replies ["ABCD1234567"] give that one number), and
\* container_numbers of every final record holds no value twice.
C8_ContainersDeduplicated ==
    /\ \A it \in BillOutputs :
          /\ NoDuplicates(it.json.f["container_numbers"].e)
          /\ \A i \in DOMAIN it.inputs :
                LET again == reduceBillResults(Append(it.inputs, it.inputs[i]))
                IN  /\ ~again.threw
                    /\ NoDuplicates(again.json.f["container_numbers"].e)
                    /\ Range(again.json.f["container_numbers"].e)
                         = Range(it.json.f["container_numbers"].e)
          /\ it.inputs = <<OneContainerReply, OneContainerReply>> =>
                it.json.f["container_numbers"] = Arr(<<Str("ABCD1234567")>>)
    /\ \A r \in Range(finalRecords) : NoDuplicates(r.f["container_numbers"].e)

\* C8 witness: the bill reducer has returned one number for two replies that
\* both name it.
C8_Witness ==
    \E it \in BillOutputs :
        /\ it.inputs = <<OneContainerReply, OneContainerReply>>
        /\ it.json.f["container_numbers"] = Arr(<<Str("ABCD1234567")>>)

BillBranchComplete ==
    ~HasType("bill") \/ \E i \in DOMAIN attachments :
                            <<"Parse Container Response", i>> \in reached

PklBranchComplete ==
    ~HasType("packaging_list") \/ \E i \in DOMAIN attachments :
                                      <<"Parse PKL Response", i>> \in reached

MergeRan == \E i \in DOMAIN attachments : <<"Merge Results", i>> \in reached

\* C9: Merge Results does not run, and no final record exists, before both
\* branches have completed (a branch without attachments counts as completed).
C9_JoinBarrier ==
    (MergeRan \/ finalRecords # <<>>) => (BillBranchComplete /\ PklBranchComplete)

FieldsAreArrays(r) ==
    /\ DOMAIN r.f = {"container_numbers", "sku_items"}
    /\ r.f["container_numbers"].t = "array"
    /\ r.f["sku_items"].t = "array"

\* C10: when one branch has no attachment and the other has some, a final
\* record is eventually emitted once the other branch delivers (bills only:
\* always), and in every final record the field of a branch without
\* attachments is the empty sequence; both fields are always sequences.
C10_EmptyBranchDoesNotBlock ==
    /\ [](\A r \in Range(finalRecords) :
            /\ FieldsAreArrays(r)
            /\ ~HasType("packaging_list") => r.f["sku_items"] = Arr(<<>>)
            /\ ~HasType("bill") => r.f["container_numbers"] = Arr(<<>>))
    /\ (HasType("bill") /\ ~HasType("packaging_list")) ~> (finalRecords # <<>>)
    /\ (~HasType("bill") /\ inbox["Merge Results"] # <<>>) ~> (finalRecords # <<>>)

\* C10 witness: two bills, no packing list, and the record carries the
\* container numbers with sku_items empty.
C10_Witness ==
    /\ CountType("bill") = 2
    /\ CountType("packaging_list") = 0
    /\ Len(finalRecords) = 1
    /\ finalRecords[1].f["container_numbers"] =
           Arr(<<Str("ABCD1234567"), Str("EFGH7654321")>>)
    /\ finalRecords[1].f["sku_items"] = Arr(<<>>)

\* The record Format Output emits for the i-th item of its input in this step.
EmittedFor(i) == finalRecords'[Len(finalRecords) + i]

\* C12: whenever the packing-list reducer computed checksum_ok = false, the
\* record the pipeline outputs for that email carries checksum_ok = false,
\* and its items are the reducer's items, uncorrected.
C12_MismatchPropagated ==
    [][Ready("Format Output") /\ Len(finalRecords') > Len(finalRecords) =>
          \A i \in DOMAIN Input("Format Output") :
              \A m \in Range(Input("Format Output")[i].merged) :
                  Get(m, "checksum_ok") = Bool(FALSE) =>
                      /\ Get(EmittedFor(i), "sku_items") = Get(m, "pkl_items")
                      /\ Get(EmittedFor(i), "checksum_ok") = Bool(FALSE)]_vars

====
